---- MODULE Spec2Model ----
(***************************************************************************)
(* A model of nussl.js: the ElementWatcher (selector watching driven by a  *)
(* MutationObserver) and the ElementManager (find / create / bypass        *)
(* builder) over one document tree.                                        *)
(***************************************************************************)
EXTENDS Integers, Sequences, FiniteSets

\* ---------------------------------------------------------------- bounds
NumElems == 4        \* element nodes besides the body
NumPresent == 3      \* elements that exist from the start; the others are left to createElement
NumWatched == 2      \* elements that come and go on the page a watcher observes
MaxManagerCalls == 3 \* calls in the manager's call chain, the static entry included
MaxAmount == 2       \* the amount handed to move() / up() / down() / in() / out()
MaxStyleLen == 2     \* text chunks in an element's initial inline style
MaxChain == 2        \* gets() calls on one watcher
MaxObservers == 2    \* processElements() calls (MutationObservers created)
MaxPasses == 2       \* deliveries of mutation records
MaxSel == 2          \* selectors passed to all() / any()
MaxWhen == 1         \* selectors passed to when()
MaxCalls == 3        \* calls in an existence watcher's call chain, the factory included
MaxBindCalls == 4    \* calls in a binding watcher's call chain, the factory included
MaxTriggerCalls == 5  \* calls in the chain of a watcher that declares a secondary trigger
MaxTimers == 1       \* pending setTimeout callbacks
MaxDepth == 2        \* nested dispatchEvent() calls before the stack is exhausted

\* ------------------------------------------------------------- constants
Null == "null"       \* JavaScript null / undefined
NoWatcher == [constructed |-> FALSE]   \* before a factory ran
Body == 0
NoNode == -1         \* null where a node is expected
TextNode == -2       \* a text node, as append(null) and replaceWith(null) make
Elements == 1..NumElems
Nodes == 0..NumElems
Tags == {"a", "b"}
WatchSelectors == Tags
Events == {"click", "hover"}
Callbacks == {"cb"}
Delays == {"1000"}
Conditions == {"not1"}

VARIABLES
    kids,        \* node -> sequence of child nodes (the document tree below each node)
    tag,         \* node -> tag name, Null for a node that does not exist yet
    watcher,     \* the ElementWatcher instance, NoWatcher before a factory ran
    lastCall,    \* the builder method that ran last
    observers,   \* MutationObservers in creation order
    listeners,   \* element -> event listeners in attach order
    passes,      \* the evaluation passes the last step ran
    invoked,     \* the binding callbacks the last step invoked
    timers,      \* setTimeout queue of delayed callbacks
    npass,       \* mutation deliveries so far
    remaining,   \* calls the running call chain still makes; 0 once the statement ended
    manager,     \* the ElementManager the chain is on
    builder,     \* identity of that manager (what the last call returned)
    attrs,       \* element -> its style and class attributes
    threw,       \* an exception ended the chain
    calls,       \* how far the chain follows find(selector).or().create(tag), or
                 \* hide().hide(false) with the style before it
    args         \* the attribute key and value of the last call when it was set()

wvars == <<watcher, observers, passes, timers, npass>>

mvars == <<manager, builder, attrs, threw, calls, args>>

vars == <<kids, tag, lastCall, listeners, invoked, remaining, wvars, mvars>>

\* the tag of an element that exists from the start
ElementTag(e) == IF e % 2 = 1 THEN "a" ELSE "b"

\* ------------------------------------------------------------ the document
RECURSIVE Flat(_)
Flat(ss) == IF ss = <<>> THEN <<>> ELSE Head(ss) \o Flat(Tail(ss))

IsElement(n) == n \in Nodes

\* the element children of p (text nodes left out)
Children(k, p) == SelectSeq(k[p], IsElement)

RECURSIVE Preorder(_, _)
Preorder(k, n) ==
    <<n>> \o Flat([i \in 1..Len(Children(k, n)) |-> Preorder(k, Children(k, n)[i])])

DocOrder(k) == Preorder(k, Body)

SeqSet(s) == {s[i] : i \in 1..Len(s)}

Last(s) == s[Len(s)]

Connected(k) == SeqSet(DocOrder(k))

QuerySelectorAll(k, t, sel) ==
    SelectSeq(DocOrder(k), LAMBDA n : t[n] = sel)

QuerySelector(k, t, sel) ==
    LET all == QuerySelectorAll(k, t, sel)
    IN  IF all = <<>> THEN NoNode ELSE Head(all)

RemoveAt(s, i) == SubSeq(s, 1, i - 1) \o SubSeq(s, i + 1, Len(s))

Without(s, x) == SelectSeq(s, LAMBDA y : y # x)

Detach(k, n) == [p \in Nodes |-> Without(k[p], n)]

Append_(k, p, n) == [Detach(k, n) EXCEPT ![p] = Append(@, n)]

\* parent.insertBefore(n, ref): n becomes the sibling right before ref
InsertBefore(k, p, n, ref) ==
    LET d == Detach(k, n)
        at == CHOOSE i \in 1..Len(d[p]) : d[p][i] = ref
    IN  [d EXCEPT ![p] = SubSeq(@, 1, at - 1) \o <<n>> \o SubSeq(@, at, Len(@))]

\* ------------------------------------------------------------ the watcher
NewWatcher ==
    [once |-> FALSE, until |-> FALSE, unless |-> FALSE, condition |-> Null,
     selectors |-> <<>>, chain |-> <<>>, requireAll |-> FALSE,
     requireAny |-> FALSE, callback |-> Null, triggerEventName |-> Null,
     targetSelector |-> Null]

SelSeqs(max) == UNION {[1..n -> WatchSelectors] : n \in 0..max}

\* the predicate handed to only(): "true" is the default () => true
CondHolds(c, e) == IF c = "not1" THEN e # 1 ELSE TRUE

Truthy(d) == d # Null /\ d # "0"

ElementGroups(w, k, t) ==
    [i \in 1..Len(w.selectors) |-> QuerySelectorAll(k, t, w.selectors[i])]

FlattenedElements(w, k, t) == Flat(ElementGroups(w, k, t))

FoundSelectorsCount(w, k, t) ==
    Cardinality({i \in 1..Len(w.selectors) : ElementGroups(w, k, t)[i] # <<>>})

\* mutant: the all() branch accepts one matching selector
ExistenceCallsAllAsAny(w, k, t) ==
    LET flat == FlattenedElements(w, k, t)
        call(argc, elements) ==
            IF w.callback # Null THEN <<[argc |-> argc, elements |-> elements]>>
            ELSE <<>>
    IN  IF w.requireAll /\ FoundSelectorsCount(w, k, t) >= 1
        THEN call(1, flat)
        ELSE IF w.requireAny /\ Len(flat) > 0
        THEN call(1, flat)
        ELSE IF w.unless /\ Len(flat) = 0
        THEN call(0, <<>>)
        ELSE <<>>

\* mutant: the any() branch wants more than one matched element
ExistenceCallsAnyOffByOne(w, k, t) ==
    LET flat == FlattenedElements(w, k, t)
        call(argc, elements) ==
            IF w.callback # Null THEN <<[argc |-> argc, elements |-> elements]>>
            ELSE <<>>
    IN  IF w.requireAll /\ FoundSelectorsCount(w, k, t) = Len(w.selectors)
        THEN call(1, flat)
        ELSE IF w.requireAny /\ Len(flat) > 1
        THEN call(1, flat)
        ELSE IF w.unless /\ Len(flat) = 0
        THEN call(0, <<>>)
        ELSE <<>>

\* the existence branch of evaluateElements: the argument lists cb is called with
ExistenceCalls(w, k, t) ==
    LET flat == FlattenedElements(w, k, t)
        \* typeof this.callback === 'function'; argc is the number of arguments passed
        call(argc, elements) ==
            IF w.callback # Null THEN <<[argc |-> argc, elements |-> elements]>>
            ELSE <<>>
    IN  IF w.requireAll /\ FoundSelectorsCount(w, k, t) = Len(w.selectors)
        THEN call(1, flat)
        ELSE IF w.requireAny /\ Len(flat) > 0
        THEN call(1, flat)
        ELSE IF w.unless /\ Len(flat) = 0
        THEN call(0, <<>>)
        ELSE <<>>

\* the binding branch of evaluateElements: the listeners one pass attaches
ChainListeners(w, k, t, e) ==
    LET target == IF w.targetSelector = Null THEN NoNode
                  ELSE QuerySelector(k, t, w.targetSelector)
        one(i) ==
            <<[removed |-> FALSE, kind |-> "cb", event |-> w.chain[i].event,
               delay |-> w.chain[i].delay, callback |-> w.chain[i].callback,
               element |-> e, once |-> w.once, target |-> NoNode]>>
            \o (IF w.triggerEventName # Null /\ w.targetSelector # Null
                   /\ target # NoNode
                THEN <<[removed |-> FALSE, kind |-> "trigger", event |-> w.chain[i].event,
                        delay |-> Null, callback |-> Null, element |-> e,
                        once |-> w.once, target |-> target]>>
                ELSE <<>>)
    IN  Flat([i \in 1..Len(w.chain) |-> one(i)])

BindingListeners(w, k, t) ==
    LET flat == FlattenedElements(w, k, t)
        per(e) == IF w.condition # Null /\ ~CondHolds(w.condition, e)
                  THEN <<>> ELSE ChainListeners(w, k, t, e)
    IN  Flat([j \in 1..Len(flat) |-> per(flat[j])])

\* addEventListener as if a listener for an event the element already listens to
\* were ignored
AddListenersOnce(ls, new) ==
    [e \in Elements |->
        ls[e] \o SelectSeq(new, LAMBDA l :
                     l.element = e /\ \A j \in 1..Len(ls[e]) : ls[e][j].event # l.event)]

AddListeners(ls, new) ==
    [e \in Elements |-> ls[e] \o SelectSeq(new, LAMBDA l : l.element = e)]

\* one run of evaluateElements for observer i; st carries the listeners and the log
EvaluateElements(st, w, k, t, i, forExistence, by) ==
    IF forExistence
    THEN [st EXCEPT !.passes = Append(@,
              [obs |-> i, by |-> by, forExistence |-> TRUE,
               calls |-> ExistenceCalls(w, k, t), attached |-> 0])]
    ELSE LET new == BindingListeners(w, k, t)
         IN  [st EXCEPT !.ls = AddListeners(@, new),
                        !.passes = Append(@,
                            [obs |-> i, by |-> by, forExistence |-> FALSE,
                             calls |-> <<>>, attached |-> Len(new)])]

\* callback invocations the passes of one step made
Calls(ps) == Len(Flat([i \in 1..Len(ps) |-> ps[i].calls]))

\* a builder call that changes the watcher changes what the closures of the
\* subscriptions made so far read through this
Reconfigure(obs, w) ==
    [i \in 1..Len(obs) |->
        IF w # watcher THEN [obs[i] EXCEPT !.reconfigured = TRUE] ELSE obs[i]]

\* whether the synchronous evaluation at the end of processElements runs
InitialEvaluation(forExistence) == forExistence

\* mutant: observerCallback never disconnects
DisconnectNever(w, forExistence) == FALSE

\* mutant: observerCallback disconnects a once() watcher's binding subscription too
DisconnectAnyKind(w, forExistence) == w.once

\* whether observerCallback disconnects the observer after its pass
DisconnectAfter(w, forExistence) == w.once /\ forExistence

ProcessElements(w, forExistence) ==
    /\ Len(observers) < MaxObservers
    /\ remaining > 0
    /\ remaining' = remaining - 1
    /\ LET st0 == [ls |-> listeners, passes |-> <<>>]
           st1 == IF InitialEvaluation(forExistence)
                  THEN EvaluateElements(st0, w, kids, tag, Len(observers) + 1,
                                        forExistence, "immediate")
                  ELSE st0
       IN  /\ listeners' = st1.ls
           /\ passes' = st1.passes
           /\ observers' = Append(Reconfigure(observers, w),
                  [forExistence |-> forExistence, connected |-> TRUE,
                   pending |-> FALSE, delivered |-> 0,
                   immediateCalls |-> Calls(st1.passes), mutationCalls |-> 0,
                   reconfigured |-> FALSE])
    /\ invoked' = <<>>
    /\ UNCHANGED <<kids, tag, timers, npass, mvars>>

Configure(w, name) ==
    /\ remaining > 0
    /\ remaining' = remaining - 1
    /\ watcher' = w
    /\ lastCall' = name
    /\ observers' = Reconfigure(observers, w)
    /\ passes' = <<>>
    /\ invoked' = <<>>
    /\ UNCHANGED <<kids, tag, listeners, timers, npass, mvars>>

Always ==
    /\ watcher = NoWatcher
    /\ Configure(NewWatcher, "always")

Once ==
    /\ watcher = NoWatcher
    /\ Configure([NewWatcher EXCEPT !.once = TRUE], "once")

Until ==
    /\ watcher = NoWatcher
    /\ Configure([NewWatcher EXCEPT !.until = TRUE], "until")

Only ==
    /\ watcher = NoWatcher
    /\ \E c \in Conditions :
           Configure([NewWatcher EXCEPT !.condition = c], "only")

Unless ==
    /\ watcher = NoWatcher
    /\ Configure([NewWatcher EXCEPT !.unless = TRUE], "unless")

When ==
    /\ watcher # NoWatcher
    /\ \E sels \in SelSeqs(MaxWhen) :
           Configure([watcher EXCEPT !.selectors = sels], "when")

Gets ==
    /\ watcher # NoWatcher
    /\ Len(watcher.chain) < MaxChain
    /\ \E ev \in Events :
           Configure([watcher EXCEPT !.chain = Append(@,
               [event |-> ev, delay |-> Null, callback |-> Null])], "gets")

\* after() / then() as if they wrote the delay and callback to every entry
SetEvery(chain, delay, callback, withDelay) ==
    [i \in 1..Len(chain) |->
        [chain[i] EXCEPT !.delay = IF withDelay THEN delay ELSE @,
                         !.callback = callback]]

SetLast(chain, delay, callback, withDelay) ==
    IF chain = <<>> THEN chain
    ELSE [chain EXCEPT ![Len(chain)] =
             [@ EXCEPT !.delay = IF withDelay THEN delay ELSE @,
                       !.callback = callback]]

After ==
    /\ watcher # NoWatcher
    /\ \E d \in Delays, cb \in Callbacks :
           LET w == [watcher EXCEPT !.chain = SetLast(@, d, cb, TRUE)]
           IN  /\ watcher' = w
               /\ lastCall' = "after"
               /\ ProcessElements(w, FALSE)

Then ==
    /\ watcher # NoWatcher
    /\ \E cb \in Callbacks :
           LET w == [watcher EXCEPT !.chain = SetLast(@, Null, cb, FALSE)]
           IN  /\ watcher' = w
               /\ lastCall' = "then"
               /\ ProcessElements(w, FALSE)

And ==
    /\ watcher # NoWatcher
    /\ Configure(watcher, "and")

Exists ==
    /\ watcher # NoWatcher
    /\ \E cb \in Callbacks :
           LET w == [watcher EXCEPT !.callback = cb]
           IN  /\ watcher' = w
               /\ lastCall' = "exists"
               /\ ProcessElements(w, TRUE)

Trigger ==
    /\ watcher # NoWatcher
    /\ \E ev \in Events :
           Configure([watcher EXCEPT !.triggerEventName = ev], "trigger")

On ==
    /\ watcher # NoWatcher
    /\ \E sel \in WatchSelectors :
           LET w == [watcher EXCEPT !.targetSelector = sel]
           IN  /\ watcher' = w
               /\ lastCall' = "on"
               /\ ProcessElements(w, FALSE)

All ==
    /\ watcher # NoWatcher
    /\ \E sels \in SelSeqs(MaxSel) :
           Configure([watcher EXCEPT !.selectors = sels, !.requireAll = TRUE], "all")

Any ==
    /\ watcher # NoWatcher
    /\ \E sels \in SelSeqs(MaxSel) :
           Configure([watcher EXCEPT !.selectors = sels, !.requireAny = TRUE], "any")

\* ------------------------------------------------- mutations and delivery
\* A call chain is one synchronous statement: the page's other scripts, the
\* delivery of mutation records, events and timers run before it or after it.
Idle == watcher = NoWatcher \/ remaining = 0

\* the statement ends before it used every call
EndChain ==
    /\ watcher # NoWatcher
    /\ remaining > 0
    /\ remaining' = 0
    /\ lastCall' = Null
    /\ passes' = <<>>
    /\ invoked' = <<>>
    /\ UNCHANGED <<kids, tag, watcher, observers, listeners, timers, npass, mvars>>

\* the page's scripts add and remove elements under the body (Insert keeps the
\* body's children in the order of their identities); a childList mutation under the body queues a record for every connected observer
QueueRecords(obs) ==
    [i \in 1..Len(obs) |->
        IF obs[i].connected THEN [obs[i] EXCEPT !.pending = TRUE] ELSE obs[i]]

Insert ==
    \E e \in Elements :
        /\ Idle
        /\ tag[e] # Null
        /\ e \notin Connected(kids)
        /\ \/ /\ \A x \in SeqSet(kids[Body]) : x < e
              /\ kids' = Append_(kids, Body, e)
           \/ \E ref \in SeqSet(kids[Body]) :
                  /\ ref > e
                  /\ \A x \in SeqSet(kids[Body]) : x > e => x >= ref
                  /\ kids' = InsertBefore(kids, Body, e, ref)
        /\ observers' = QueueRecords(observers)
        /\ lastCall' = Null
        /\ passes' = <<>>
        /\ invoked' = <<>>
        /\ UNCHANGED <<tag, watcher, listeners, timers, npass, remaining, mvars>>

Remove ==
    \E e \in Elements :
        /\ Idle
        /\ e \in Connected(kids)
        /\ kids' = Detach(kids, e)
        /\ observers' = QueueRecords(observers)
        /\ lastCall' = Null
        /\ passes' = <<>>
        /\ invoked' = <<>>
        /\ UNCHANGED <<tag, watcher, listeners, timers, npass, remaining, mvars>>

\* observerCallback for observer i, then the same for the observers after it
RECURSIVE Notify(_, _, _, _, _)
Notify(st, w, k, t, i) ==
    IF i > Len(st.obs) THEN st
    ELSE LET o == st.obs[i]
         IN  IF o.connected /\ o.pending
             THEN LET st1 == EvaluateElements(st, w, k, t, i, o.forExistence, "mutation")
                      st2 == [st1 EXCEPT !.obs[i] =
                                 [@ EXCEPT !.pending = FALSE,
                                           !.delivered = @ + 1,
                                           !.mutationCalls =
                                               @ + Len(Last(st1.passes).calls),
                                           !.connected =
                                               ~DisconnectAfter(w, o.forExistence)]]
                  IN  Notify(st2, w, k, t, i + 1)
             ELSE Notify(st, w, k, t, i + 1)

Deliver ==
    /\ Idle
    /\ \E i \in 1..Len(observers) : observers[i].connected /\ observers[i].pending
    /\ npass < MaxPasses
    /\ LET st == Notify([ls |-> listeners, passes |-> <<>>,
                         obs |-> observers], watcher, kids, tag, 1)
       IN  /\ listeners' = st.ls
           /\ passes' = st.passes
           /\ observers' = st.obs
    /\ npass' = npass + 1
    /\ lastCall' = Null
    /\ invoked' = <<>>
    /\ UNCHANGED <<kids, tag, watcher, timers, remaining, mvars>>

\* ----------------------------------------------------------- event dispatch
\* element.dispatchEvent(new Event(ev)): the listeners registered for ev when the
\* dispatch starts run in attach order; one removed meanwhile is skipped, a
\* once-listener is removed before it runs; a trigger listener dispatches
\* this.triggerEventName on the target it captured
RECURSIVE DispatchEvent(_, _, _, _, _)
RECURSIVE InvokeListeners(_, _, _, _, _)
DispatchEvent(st, w, e, ev, fuel) ==
    LET snapshot == SelectSeq([i \in 1..Len(st.ls[e]) |-> i],
                       LAMBDA i : st.ls[e][i].event = ev /\ ~st.ls[e][i].removed)
    IN  InvokeListeners(st, w, e, snapshot, fuel)

InvokeListeners(st, w, e, snapshot, fuel) ==
    IF snapshot = <<>> THEN st
    ELSE LET i == Head(snapshot)
             l == st.ls[e][i]
             st1 == IF l.once THEN [st EXCEPT !.ls[e][i].removed = TRUE] ELSE st
             st2 == IF l.removed THEN st
                    ELSE IF l.kind = "cb"
                    THEN IF Truthy(l.delay)
                         THEN [st1 EXCEPT !.tm = Append(@,
                                  [callback |-> l.callback, element |-> l.element])]
                         ELSE IF l.callback # Null
                         THEN [st1 EXCEPT !.inv = Append(@,
                                  [call |-> l.callback, element |-> l.element])]
                         ELSE st1
                    ELSE IF fuel = 0
                    THEN [st1 EXCEPT !.overflow = TRUE]
                    ELSE DispatchEvent(
                             [st1 EXCEPT !.inv = Append(@,
                                 [call |-> "dispatchEvent:" \o w.triggerEventName,
                                  element |-> l.target])],
                             w, l.target, w.triggerEventName, fuel - 1)
         IN  InvokeListeners(st2, w, e, Tail(snapshot), fuel)

Dispatch ==
    \E e \in Elements, ev \in Events :
        /\ Idle
        /\ tag[e] # Null
        /\ listeners[e] # <<>>
        /\ LET st == DispatchEvent([ls |-> listeners, inv |-> <<>>, tm |-> timers,
                                    overflow |-> FALSE], watcher, e, ev, MaxDepth)
           IN  /\ Len(st.tm) <= MaxTimers
               /\ listeners' = [x \in Elements |->
                                   SelectSeq(st.ls[x], LAMBDA l : ~l.removed)]
               /\ invoked' = st.inv
               /\ timers' = st.tm
        /\ lastCall' = Null
        /\ passes' = <<>>
        /\ UNCHANGED <<kids, tag, watcher, observers, npass, remaining, mvars>>

\* a setTimeout callback: callback && callback(element, e)
TimerFire ==
    /\ Idle
    /\ timers # <<>>
    /\ invoked' = IF Head(timers).callback # Null
                  THEN <<[call |-> Head(timers).callback,
                          element |-> Head(timers).element]>>
                  ELSE <<>>
    /\ timers' = Tail(timers)
    /\ lastCall' = Null
    /\ passes' = <<>>
    /\ UNCHANGED <<kids, tag, watcher, observers, listeners, npass, remaining, mvars>>

\* ------------------------------------------------------------ the manager
NewManager == [element |-> NoNode, found |-> FALSE, bypass |-> FALSE, replaced |-> NoNode]

\* an attribute: has = FALSE is getAttribute() returning null
NoAttribute == [has |-> FALSE, value |-> <<>>]

NoAttributes == [style |-> NoAttribute, class |-> NoAttribute]

Attribute(v) == [has |-> TRUE, value |-> v]

\* ---- strings: a string is a sequence of text chunks
\* the marker hide() appends, ";/*hide--*/;display:none !important;/*--hide*/;"
HiddenStyle ==
    <<";", "/*hide--*/", ";", "display:none !important", ";", "/*--hide*/", ";">>

\* the text the regular expression of hide(false) matches
HiddenPattern ==
    <<"/*hide--*/", ";", "display:none !important", ";", "/*--hide*/">>

Occurrences(str, sub) ==
    {i \in 1..(Len(str) - Len(sub) + 1) : SubSeq(str, i, i + Len(sub) - 1) = sub}

Includes(str, sub) == Occurrences(str, sub) # {}

Min(S) == CHOOSE x \in S : \A y \in S : x <= y

\* str.replace(pattern, replacement): the first match only
ReplaceFirst(str, sub, by) ==
    IF ~Includes(str, sub) THEN str
    ELSE LET i == Min(Occurrences(str, sub))
         IN  SubSeq(str, 1, i - 1) \o by \o SubSeq(str, i + Len(sub), Len(str))

\* old ?? ""
OrEmpty(a) == IF a.has THEN a.value ELSE <<>>

\* null in a string concatenation
AsString(a) == IF a.has THEN a.value ELSE <<"null">>

\* the value set() gives attribute key: givenKey is the key with its sigils,
\* prefix for "$__key", suffix for "key__$"
MergedValue(old, givenKey, nu) ==
    IF givenKey.suffix THEN OrEmpty(old) \o nu
    ELSE IF givenKey.prefix THEN nu \o AsString(old)
    ELSE nu

GivenKeys(names) == [name : names, prefix : BOOLEAN, suffix : BOOLEAN]

Plain(name) == [name |-> name, prefix |-> FALSE, suffix |-> FALSE]

Suffixed(name) == [name |-> name, prefix |-> FALSE, suffix |-> TRUE]

\* set({givenKey: nu}) on manager m: st is [attrs, threw]
SetAttributes(m, st, givenKey, nu) ==
    IF m.bypass THEN st
    ELSE IF m.element = NoNode THEN [st EXCEPT !.threw = TRUE]
    ELSE [st EXCEPT !.attrs[m.element][givenKey.name] =
             Attribute(MergedValue(@, givenKey, nu))]

\* hide(hidden) with the includes() tests left out
HideUnconditionally(m, st, hidden) ==
    IF m.bypass THEN st
    ELSE LET style == IF m.element = NoNode THEN <<>>
                      ELSE OrEmpty(st.attrs[m.element].style)
         IN  IF hidden
             THEN SetAttributes(m, st, Suffixed("style"), HiddenStyle)
             ELSE SetAttributes(m, st, Plain("style"),
                                ReplaceFirst(style, HiddenPattern, <<>>))

\* hide(hidden) on manager m
HideElement(m, st, hidden) ==
    IF m.bypass THEN st
    ELSE LET style == IF m.element = NoNode THEN <<>>
                      ELSE OrEmpty(st.attrs[m.element].style)
         IN  IF hidden /\ ~Includes(style, HiddenStyle)
             THEN SetAttributes(m, st, Suffixed("style"), HiddenStyle)
             ELSE IF ~hidden /\ Includes(style, HiddenStyle)
             THEN SetAttributes(m, st, Plain("style"),
                                ReplaceFirst(style, HiddenPattern, <<>>))
             ELSE st

\* ---- the tree
Parent(k, n) ==
    IF \E p \in Nodes : n \in SeqSet(k[p])
    THEN CHOOSE p \in Nodes : n \in SeqSet(k[p])
    ELSE NoNode

IsConnected(k, n) == n \in Connected(k)

\* n and the elements below it
Subtree(k, n) == SeqSet(Preorder(k, n))

IndexOf(seq, x) == CHOOSE i \in 1..Len(seq) : seq[i] = x

\* parent.append(n) where n may be null: append(null) adds the text "null"
AppendNode(k, p, n) ==
    IF n = NoNode THEN [k EXCEPT ![p] = Append(@, TextNode)]
    ELSE Append_(k, p, n)

\* old.replaceWith(new) for an old that has a parent and a new outside old's ancestors
ReplaceWith(k, old, new) ==
    LET p == Parent(k, old)
    IN  IF new = old THEN k
        ELSE LET d == IF new = NoNode THEN k ELSE Detach(k, new)
                 at == IndexOf(d[p], old)
             IN  [d EXCEPT ![p] = [@ EXCEPT ![at] =
                                      IF new = NoNode THEN TextNode ELSE new]]

\* ---- the builder
ManagerSelectors == Tags

ParentSelectors == Tags \cup {"body"}

ExistingNodes == {n \in Nodes : tag[n] # Null}

FreeNodes == {n \in Elements : tag[n] = Null}

Running == remaining > 0 /\ ~threw

NoCalls == [stage |-> "", selector |-> "", tag |-> "", style |-> <<>>]

NoArgs == [givenKey |-> [name |-> "", prefix |-> FALSE, suffix |-> FALSE], nu |-> <<>>]

WorkingStyle ==
    IF manager.element = NoNode THEN <<>> ELSE OrEmpty(attrs[manager.element].style)

\* the chain so far, as far as it reads find(selector).or().create(tag) from its
\* start, or ends in hide().hide(false)
Progress(name, arg) ==
    IF calls.stage = "" /\ name = "find"
    THEN [NoCalls EXCEPT !.stage = "find", !.selector = arg]
    ELSE IF calls.stage = "find" /\ name = "or"
    THEN [calls EXCEPT !.stage = "find.or"]
    ELSE IF calls.stage = "find.or" /\ name = "create"
    THEN [calls EXCEPT !.stage = "find.or.create", !.tag = arg]
    ELSE IF name = "hide" /\ arg = "true"
    THEN [NoCalls EXCEPT !.stage = "hide", !.style = WorkingStyle]
    ELSE IF calls.stage = "hide" /\ name = "hide" /\ arg = "false"
    THEN [calls EXCEPT !.stage = "hide.show"]
    ELSE [NoCalls EXCEPT !.stage = "other"]

\* one builder call: the manager it leaves, the builder it returns and the log
CallWith(name, arg, m, b, a) ==
    /\ Running
    /\ remaining' = remaining - 1
    /\ manager' = m
    /\ builder' = b
    /\ lastCall' = name
    /\ calls' = Progress(name, arg)
    /\ args' = a
    /\ invoked' = <<>>
    /\ UNCHANGED wvars

Call(name, arg, m, b) == CallWith(name, arg, m, b, NoArgs)

Find ==
    \E selector \in ManagerSelectors :
        LET element == QuerySelector(kids, tag, selector)
        IN  /\ Call("find", selector,
                    [manager EXCEPT !.element = element,
                                    !.found = IF element # NoNode THEN TRUE ELSE @],
                    builder)
            /\ UNCHANGED <<kids, tag, listeners, attrs, threw>>

\* create(tag) with the bypass test left out
CreateIgnoringBypass ==
    \E t \in Tags :
        /\ FreeNodes # {}
        /\ Call("create", t, [manager EXCEPT !.element = Min(FreeNodes)], builder)
        /\ tag' = [tag EXCEPT ![Min(FreeNodes)] = t]
        /\ UNCHANGED <<kids, listeners, attrs, threw>>

Create ==
    \E t \in Tags :
        IF manager.bypass
        THEN /\ Call("create", t, manager, builder)
             /\ UNCHANGED <<kids, tag, listeners, attrs, threw>>
        ELSE /\ FreeNodes # {}
             /\ Call("create", t, [manager EXCEPT !.element = Min(FreeNodes)], builder)
             /\ tag' = [tag EXCEPT ![Min(FreeNodes)] = t]
             /\ UNCHANGED <<kids, listeners, attrs, threw>>

Replace ==
    \E selector \in ManagerSelectors :
        /\ Call("replace", selector,
                [manager EXCEPT !.replaced = QuerySelector(kids, tag, selector)],
                builder)
        /\ UNCHANGED <<kids, tag, listeners, attrs, threw>>

Use ==
    \E element \in (ExistingNodes \ {Body}) \cup {NoNode} :
        /\ Call("use", "", [manager EXCEPT !.element = element], builder)
        /\ UNCHANGED <<kids, tag, listeners, attrs, threw>>

Or ==
    /\ Call("or", "", [manager EXCEPT !.bypass = manager.found], builder)
    /\ UNCHANGED <<kids, tag, listeners, attrs, threw>>

ThenManager ==
    /\ Call("then", "", [manager EXCEPT !.bypass = FALSE], builder)
    /\ UNCHANGED <<kids, tag, listeners, attrs, threw>>

\* on(parentOrSelector): a selector string, or anything else for document.body
OnParent ==
    \E target \in ParentSelectors \cup {"(default)"} :
        LET parent == IF target = "(default)" THEN Body
                      ELSE QuerySelector(kids, tag, target)
            attached == manager.element # NoNode /\ IsConnected(kids, manager.element)
        IN  /\ Call("on", target, manager, builder)
            /\ kids' = IF manager.bypass \/ attached \/ parent = NoNode THEN kids
                       ELSE AppendNode(kids, parent, manager.element)
            /\ UNCHANGED <<tag, listeners, attrs, threw>>

SetValues == {<<"x">>}

Set ==
    \E givenKey \in GivenKeys({"class"}), nu \in SetValues :
        LET st == SetAttributes(manager, [attrs |-> attrs, threw |-> threw], givenKey, nu)
        IN  /\ CallWith("set", givenKey.name, manager, builder,
                         [givenKey |-> givenKey, nu |-> nu])
            /\ attrs' = st.attrs
            /\ threw' = st.threw
            /\ UNCHANGED <<kids, tag, listeners>>

\* with(elementManager): the other manager is one use(element) made
With ==
    \E element \in (ExistingNodes \ {Body}) \cup {NoNode} :
        LET old == manager.replaced
            p == IF old = NoNode THEN NoNode ELSE Parent(kids, old)
            cyclic == element # NoNode /\ element # old /\ p # NoNode
                      /\ p \in Subtree(kids, element)
        IN  /\ IF cyclic
               THEN Call("with", "", manager, builder)
               ELSE Call("with", "", [NewManager EXCEPT !.element = element], builder + 1)
            /\ kids' = IF p = NoNode \/ cyclic THEN kids
                       ELSE ReplaceWith(kids, old, element)
            /\ threw' = cyclic
            /\ UNCHANGED <<tag, listeners, attrs>>

Hide ==
    \E hidden \in BOOLEAN :
        LET st == HideElement(manager, [attrs |-> attrs, threw |-> threw], hidden)
        IN  /\ Call("hide", IF hidden THEN "true" ELSE "false", manager, builder)
            /\ attrs' = st.attrs
            /\ threw' = st.threw
            /\ UNCHANGED <<kids, tag, listeners>>

RemoveElement ==
    /\ Call("remove", "", manager, builder)
    /\ kids' = IF manager.bypass \/ manager.element = NoNode THEN kids
               ELSE Detach(kids, manager.element)
    /\ UNCHANGED <<tag, listeners, attrs, threw>>

\* ------------------------------------------------------ the watcher's page
InitWatcher ==
    /\ kids = [n \in Nodes |-> <<>>]
    /\ tag = [n \in Nodes |-> IF n = Body THEN "body"
                              ELSE IF n <= NumWatched THEN ElementTag(n) ELSE Null]
    /\ watcher = NoWatcher
    /\ lastCall = Null
    /\ observers = <<>>
    /\ listeners = [e \in Elements |-> <<>>]
    /\ passes = <<>>
    /\ invoked = <<>>
    /\ timers = <<>>
    /\ npass = 0
    /\ remaining = MaxCalls
    /\ manager = NewManager
    /\ builder = 1
    /\ attrs = [n \in Nodes |-> NoAttributes]
    /\ threw = FALSE
    /\ calls = NoCalls
    /\ args = NoArgs

Factory == Always \/ Once \/ Until \/ Only \/ Unless

Page == EndChain \/ Insert \/ Remove \/ Deliver

\* existence watching: a factory, when() / all() / any(), exists(); then() on the
\* empty chain adds a binding-mode subscription
NextExist == Factory \/ When \/ All \/ Any \/ Exists \/ Then \/ Page

SpecExist == InitWatcher /\ [][NextExist]_vars

\* event binding: a factory, when(), gets() / after() / then() / and(), trigger() / on()
NextBind ==
    \/ Always \/ Once \/ Only \/ When \/ Gets \/ After \/ Then \/ And \/ Trigger \/ On
    \/ Page \/ Dispatch \/ TimerFire

InitBind ==
    /\ kids = [n \in Nodes |-> <<>>]
    /\ tag = [n \in Nodes |-> IF n = Body THEN "body"
                              ELSE IF n <= NumWatched THEN ElementTag(n) ELSE Null]
    /\ watcher = NoWatcher
    /\ lastCall = Null
    /\ observers = <<>>
    /\ listeners = [e \in Elements |-> <<>>]
    /\ passes = <<>>
    /\ invoked = <<>>
    /\ timers = <<>>
    /\ npass = 0
    /\ remaining = MaxBindCalls
    /\ manager = NewManager
    /\ builder = 1
    /\ attrs = [n \in Nodes |-> NoAttributes]
    /\ threw = FALSE
    /\ calls = NoCalls
    /\ args = NoArgs

SpecBind == InitBind /\ [][NextBind]_vars

\* the page before a watcher is constructed, with a budget of chain calls
PageBefore(budget) ==
    /\ kids = [n \in Nodes |-> <<>>]
    /\ tag = [n \in Nodes |-> IF n = Body THEN "body"
                              ELSE IF n <= NumWatched THEN ElementTag(n) ELSE Null]
    /\ watcher = NoWatcher
    /\ lastCall = Null
    /\ observers = <<>>
    /\ listeners = [e \in Elements |-> <<>>]
    /\ passes = <<>>
    /\ invoked = <<>>
    /\ timers = <<>>
    /\ npass = 0
    /\ remaining = budget
    /\ manager = NewManager
    /\ builder = 1
    /\ attrs = [n \in Nodes |-> NoAttributes]
    /\ threw = FALSE
    /\ calls = NoCalls
    /\ args = NoArgs

\* a secondary trigger: a factory, when(), gets(), trigger(), on()
InitTrigger == PageBefore(MaxTriggerCalls)

NextTrigger == Always \/ Once \/ When \/ Gets \/ Trigger \/ On \/ Page \/ Dispatch

SpecTrigger == InitTrigger /\ [][NextTrigger]_vars

\* binding by then() alone, by a watcher whose listeners stay on after they ran:
\* always() or only(), when(), gets(), then(), and dispatched events
NextListen == Always \/ Only \/ When \/ Gets \/ Then \/ Page \/ Dispatch

SpecListen == InitBind /\ [][NextListen]_vars

\* building the chain: always(), when(), gets() / after() / then() / and(), and the
\* mutation passes that bind its entries
NextChain == Always \/ When \/ Gets \/ After \/ Then \/ And \/ Page

SpecChain == InitBind /\ [][NextChain]_vars


\* ---- structural moves
PreviousElementSibling(k, n) ==
    LET p == Parent(k, n)
    IN  IF p = NoNode THEN NoNode
        ELSE LET before == SelectSeq(SubSeq(k[p], 1, IndexOf(k[p], n) - 1), IsElement)
             IN  IF before = <<>> THEN NoNode ELSE Last(before)

NextElementSibling(k, n) ==
    LET p == Parent(k, n)
    IN  IF p = NoNode THEN NoNode
        ELSE LET after == SelectSeq(SubSeq(k[p], IndexOf(k[p], n) + 1, Len(k[p])),
                                    IsElement)
             IN  IF after = <<>> THEN NoNode ELSE Head(after)

\* grand.insertBefore(n, p.nextSibling): n becomes the sibling right after p
InsertAfter(k, g, n, p) ==
    LET d == Detach(k, n)
        at == IndexOf(d[g], p)
    IN  [d EXCEPT ![g] = SubSeq(@, 1, at) \o <<n>> \o SubSeq(@, at + 1, Len(@))]

\* move("up" | "down", amount) with a single step in place of the loop
MoveSiblingOnce(k, n, direction, amount) ==
    LET sibling == IF direction = "up" THEN PreviousElementSibling(k, n)
                   ELSE NextElementSibling(k, n)
    IN  IF amount <= 0 \/ sibling = NoNode THEN k
        ELSE IF direction = "up" THEN InsertBefore(k, Parent(k, n), n, sibling)
        ELSE InsertBefore(k, Parent(k, n), sibling, n)

\* the while loop of move("up" | "down", amount)
RECURSIVE MoveSibling(_, _, _, _)
MoveSibling(k, n, direction, amount) ==
    IF amount <= 0 THEN k
    ELSE LET sibling == IF direction = "up" THEN PreviousElementSibling(k, n)
                        ELSE NextElementSibling(k, n)
         IN  IF sibling = NoNode THEN k
             ELSE MoveSibling(IF direction = "up"
                              THEN InsertBefore(k, Parent(k, n), n, sibling)
                              ELSE InsertBefore(k, Parent(k, n), sibling, n),
                              n, direction, amount - 1)

\* out(amount) with a single step in place of the loop
MoveOutOnce(k, n, amount) ==
    IF amount > 0 /\ Parent(k, n) # NoNode /\ Parent(k, n) # Body
          /\ Parent(k, Parent(k, n)) # NoNode
    THEN InsertAfter(k, Parent(k, Parent(k, n)), n, Parent(k, n))
    ELSE k

\* the while loop of out(amount)
RECURSIVE MoveOut(_, _, _)
MoveOut(k, n, amount) ==
    IF amount > 0 /\ Parent(k, n) # NoNode /\ Parent(k, n) # Body
    THEN LET parentElement == Parent(k, n)
             grand == Parent(k, parentElement)
         IN  MoveOut(IF grand # NoNode THEN InsertAfter(k, grand, n, parentElement) ELSE k,
                     n, amount - 1)
    ELSE k

\* the while loop of in(amount)
RECURSIVE MoveIn(_, _, _)
MoveIn(k, n, amount) ==
    IF amount <= 0 THEN k
    ELSE LET previousSibling == PreviousElementSibling(k, n)
         IN  IF previousSibling = NoNode THEN k
             ELSE MoveIn(Append_(k, previousSibling, n), n, amount - 1)

Directions == {"in", "out", "up", "down"}

\* move(directionOrSelector, amount), out(amount), in(amount) on manager m:
\* st is [kids, threw]; reading a property of a null element throws
MoveElement(m, st, directionOrSelector, amount) ==
    IF m.bypass THEN st
    ELSE IF directionOrSelector \in Directions
    THEN IF amount <= 0 THEN st
         ELSE IF m.element = NoNode THEN [st EXCEPT !.threw = TRUE]
         ELSE IF directionOrSelector = "in"
         THEN [st EXCEPT !.kids = MoveIn(@, m.element, amount)]
         ELSE IF directionOrSelector = "out"
         THEN [st EXCEPT !.kids = MoveOut(@, m.element, amount)]
         ELSE [st EXCEPT !.kids = MoveSibling(@, m.element, directionOrSelector, amount)]
    ELSE LET target == QuerySelector(st.kids, tag, directionOrSelector)
         IN  IF target = NoNode THEN st
             ELSE IF m.element # NoNode /\ target \in Subtree(st.kids, m.element)
             THEN [st EXCEPT !.threw = TRUE]
             ELSE [st EXCEPT !.kids = AppendNode(@, target, m.element)]

Amounts == 1..MaxAmount

Moved(name, arg, directionOrSelector, amount) ==
    LET st == MoveElement(manager, [kids |-> kids, threw |-> threw],
                          directionOrSelector, amount)
    IN  /\ Call(name, arg, manager, builder)
        /\ kids' = st.kids
        /\ threw' = st.threw
        /\ UNCHANGED <<tag, listeners, attrs>>

Move ==
    \/ \E direction \in Directions, amount \in Amounts :
           Moved("move", direction, direction, amount)
    \/ \E selector \in ParentSelectors : Moved("move", selector, selector, 1)

Up == \E amount \in Amounts : Moved("up", "", "up", amount)

Down == \E amount \in Amounts : Moved("down", "", "down", amount)

Out == \E amount \in Amounts : Moved("out", "", "out", amount)

In == \E amount \in Amounts : Moved("in", "", "in", amount)

\* listen(event, callback): addEventListener ignores a listener already registered
Listen ==
    \E ev \in Events, cb \in Callbacks :
        LET l == [removed |-> FALSE, kind |-> "cb", event |-> ev, delay |-> Null,
                  callback |-> cb, element |-> NoNode, once |-> FALSE, target |-> NoNode]
            e == manager.element
        IN  /\ Call("listen", ev, manager, builder)
            /\ listeners' =
                   IF manager.bypass \/ e = NoNode \/ l \in SeqSet(listeners[e])
                   THEN listeners
                   ELSE [listeners EXCEPT ![e] = Append(@, l)]
            /\ UNCHANGED <<kids, tag, attrs, threw>>

TriggerEvent ==
    \E ev \in Events :
        LET e == manager.element
            st == DispatchEvent([ls |-> listeners, inv |-> <<>>, tm |-> <<>>,
                                 overflow |-> FALSE], watcher, e, ev, MaxDepth)
        IN  /\ Running
            /\ remaining' = remaining - 1
            /\ lastCall' = "trigger"
            /\ calls' = Progress("trigger", ev)
            /\ args' = NoArgs
            /\ invoked' = IF manager.bypass \/ e = NoNode THEN <<>> ELSE st.inv
            /\ UNCHANGED <<manager, builder, kids, tag, listeners, attrs, threw, wvars>>

\* ------------------------------------------------------ the manager's page
FlatTree == [n \in Nodes |-> IF n = Body THEN [i \in 1..NumPresent |-> i] ELSE <<>>]

ChainTree == [n \in Nodes |-> IF n < NumPresent THEN <<n + 1>> ELSE <<>>]

\* the elements of tag "b" are not in the document
SparseTree ==
    [n \in Nodes |->
        IF n = Body
        THEN SelectSeq([i \in 1..NumPresent |-> i], LAMBDA e : ElementTag(e) = "a")
        ELSE <<>>]

InitialTrees == {FlatTree, ChainTree, SparseTree}

InitManager ==
    /\ kids \in InitialTrees
    /\ tag = [n \in Nodes |-> IF n = Body THEN "body"
                              ELSE IF n <= NumPresent THEN ElementTag(n) ELSE Null]
    /\ manager = NewManager
    /\ builder = 1
    /\ attrs = [n \in Nodes |-> NoAttributes]
    /\ threw = FALSE
    /\ calls = NoCalls
    /\ args = NoArgs
    /\ remaining = MaxManagerCalls
    /\ lastCall = Null
    /\ listeners = [e \in Elements |-> <<>>]
    /\ invoked = <<>>
    /\ watcher = NoWatcher
    /\ observers = <<>>
    /\ passes = <<>>
    /\ timers = <<>>
    /\ npass = 0

NextManager ==
    \/ Find \/ Create \/ Replace \/ Use \/ Or \/ ThenManager \/ OnParent \/ Set \/ With
    \/ Move \/ Up \/ Down \/ Out \/ In \/ Hide \/ RemoveElement \/ Listen \/ TriggerEvent

SpecManager == InitManager /\ [][NextManager]_vars


\* ------------------------------------------------- one element's attributes
StyleChunks == {"x", ";"}

Strings(chunks, max) == UNION {[1..n -> chunks] : n \in 0..max}

\* plain text, with or without the text hide() appends after it
StyleValues ==
    {NoAttribute}
        \cup {Attribute(v) : v \in Strings(StyleChunks, MaxStyleLen)}
        \cup {Attribute(v \o HiddenStyle) : v \in Strings(StyleChunks, MaxStyleLen)}

ClassValues == {NoAttribute, Attribute(<<>>), Attribute(<<"a">>)}

\* use(element) was called on an attached element whose attributes are drawn here
InitAttr ==
    /\ kids = FlatTree
    /\ tag = [n \in Nodes |-> IF n = Body THEN "body"
                              ELSE IF n <= NumPresent THEN ElementTag(n) ELSE Null]
    /\ manager = [NewManager EXCEPT !.element = 1]
    /\ builder = 1
    /\ \E style \in StyleValues, class \in ClassValues :
           attrs = [n \in Nodes |-> IF n = 1 THEN [style |-> style, class |-> class]
                                    ELSE NoAttributes]
    /\ threw = FALSE
    /\ calls = [NoCalls EXCEPT !.stage = "other"]
    /\ args = NoArgs
    /\ remaining = MaxManagerCalls
    /\ lastCall = "use"
    /\ listeners = [e \in Elements |-> <<>>]
    /\ invoked = <<>>
    /\ watcher = NoWatcher
    /\ observers = <<>>
    /\ passes = <<>>
    /\ timers = <<>>
    /\ npass = 0

NextAttr == Set \/ Hide

SpecAttr == InitAttr /\ [][NextAttr]_vars

\* ======================================================= watcher properties
\* what the selectors match, stated on the tree rather than through the query
SelectorHasMatch(sel) == \E n \in Connected(kids) : tag[n] = sel

EverySelectorMatches ==
    \A i \in 1..Len(watcher.selectors) : SelectorHasMatch(watcher.selectors[i])

SomeSelectorMatches ==
    \E i \in 1..Len(watcher.selectors) : SelectorHasMatch(watcher.selectors[i])

Constructed == watcher # NoWatcher

AllOnly == Constructed /\ watcher.requireAll /\ ~watcher.requireAny

AnyOnly == Constructed /\ watcher.requireAny /\ ~watcher.requireAll

ExistencePasses == {i \in 1..Len(passes) : passes[i].forExistence}

WithElements(p) ==
    \E j \in 1..Len(p.calls) :
        p.calls[j].argc = 1 /\ p.calls[j].elements = FlattenedElements(watcher, kids, tag)

OnceNoArgs(p) == Len(p.calls) = 1 /\ p.calls[1].argc = 0

\* the listeners then(cb) / after(delay, cb) / on(target) promise on element e:
\* one per chain entry, for the entry's event and callback
Bound(e) ==
    \A i \in 1..Len(watcher.chain) :
        \E j \in 1..Len(listeners[e]) :
            /\ listeners[e][j].kind = "cb"
            /\ listeners[e][j].event = watcher.chain[i].event
            /\ listeners[e][j].callback = watcher.chain[i].callback

WatchedNow(e) ==
    /\ e \in Connected(kids)
    /\ \E i \in 1..Len(watcher.selectors) : tag[e] = watcher.selectors[i]
    /\ watcher.condition # Null => CondHolds(watcher.condition, e)

\* C1: right after then(cb), after(delay, cb) or on(target) returns, every element
\* that matches a when() selector carries the chain's listeners (the binding pass ran
\* synchronously, before any mutation notification)
C1_ImmediateBindingPass ==
    (Constructed /\ lastCall \in {"then", "after", "on"})
        => \A e \in Elements : WatchedNow(e) => Bound(e)

\* C2 as stated: under all(S), S non-empty, cb is invoked on an existence pass iff
\* every selector of S has a match, and never on a pass where some selector has none
C2_AllQuorumAsStated ==
    (AllOnly /\ watcher.callback # Null /\ watcher.selectors # <<>>)
        => \A i \in ExistencePasses :
               (passes[i].calls # <<>>) <=> EverySelectorMatches

\* C2 amended: under all(S), S non-empty, cb is invoked with the matched elements
\* iff every selector of S has a match; on a pass where some selector has no match
\* it is not invoked, except once with no arguments by an unless() watcher when no
\* selector matches anything
C2_AllQuorum ==
    (AllOnly /\ watcher.callback # Null /\ watcher.selectors # <<>>)
        => \A i \in ExistencePasses :
               /\ WithElements(passes[i]) <=> EverySelectorMatches
               /\ EverySelectorMatches => Len(passes[i].calls) = 1
               /\ ~EverySelectorMatches =>
                      IF watcher.unless /\ ~SomeSelectorMatches
                      THEN OnceNoArgs(passes[i])
                      ELSE passes[i].calls = <<>>

C2_Witness ==
    /\ AllOnly /\ watcher.callback # Null /\ Len(watcher.selectors) = 2
    /\ watcher.selectors[1] # watcher.selectors[2]
    /\ \E i \in ExistencePasses :
           /\ passes[i].by = "mutation"
           /\ SomeSelectorMatches /\ ~EverySelectorMatches
           /\ passes[i].calls = <<>>

C4_UnlessOnlyWhenNoneMatch ==
    (AnyOnly /\ watcher.unless /\ watcher.callback # Null)
        => \A i \in ExistencePasses :
               IF SomeSelectorMatches
               THEN passes[i].calls = <<>>
               ELSE OnceNoArgs(passes[i])

\* the once().any(sel).exists(cb) watcher of C5: one subscription, made by the
\* chain's last configuring call, whose immediate pass found no match (cb was not
\* invoked by it)
OnceAnyUnmatched ==
    /\ AnyOnly /\ watcher.once /\ watcher.callback # Null
    /\ Len(observers) = 1
    /\ observers[1].forExistence
    /\ ~observers[1].reconfigured
    /\ observers[1].immediateCalls = 0

\* C5 as stated: once sel matches and every mutation record has been delivered,
\* cb has been invoked (on the pass for the first mutation after which sel matched)
C5_FiresOnFirstMatchAsStated ==
    (OnceAnyUnmatched /\ Idle /\ ~observers[1].pending /\ SomeSelectorMatches)
        => observers[1].mutationCalls = 1

\* C5 amended: cb is invoked at most once, and only by the first mutation
\* notification delivered after exists(): it is invoked by that pass iff sel matches
\* an element then; that notification disconnects the subscription, so no later
\* insertion invokes cb (again, or for the first time)
C5_FiresOnFirstNotification ==
    OnceAnyUnmatched
        => /\ observers[1].delivered <= 1
           /\ observers[1].mutationCalls <= observers[1].delivered
           /\ observers[1].delivered = 1 => ~observers[1].connected
           /\ \A i \in ExistencePasses :
                  passes[i].by = "mutation" =>
                      /\ (passes[i].calls # <<>>) <=> SomeSelectorMatches
                      /\ observers[1].mutationCalls = Len(passes[i].calls)
                      /\ Len(passes[i].calls) <= 1

C5_Witness ==
    /\ OnceAnyUnmatched
    /\ observers[1].delivered = 1
    /\ observers[1].mutationCalls = 0
    /\ passes = <<>>
    /\ SomeSelectorMatches

\* C6: a subscription is disconnected in exactly one situation, a once() watcher's
\* existence subscription after its first mutation notification; the immediate pass
\* of exists() never disconnects, nor does anything disconnect another subscription
C6_DisconnectOnlyOnceExistence ==
    \A i \in 1..Len(observers) :
        /\ ~observers[i].connected <=>
               (watcher.once /\ observers[i].forExistence /\ observers[i].delivered >= 1)
        /\ ~observers[i].connected => observers[i].delivered = 1

C6_Witness ==
    /\ Len(observers) = 2
    /\ watcher.once
    /\ ~observers[1].forExistence /\ observers[1].connected /\ observers[1].delivered = 2
    /\ observers[2].forExistence /\ ~observers[2].connected

\* ======================================================= manager properties
\* the first node in document order that matches the selector, read off the tree
FirstInDocument(sel) ==
    LET order == DocOrder(kids)
        hits == {i \in 1..Len(order) : IsElement(order[i]) /\ tag[order[i]] = sel}
    IN  IF hits = {} THEN NoNode ELSE order[Min(hits)]

CreatedByChain == (NumPresent + 1)..NumElems

\* C7: after find(selector).or().create(tag), when selector matched an existing node
\* create was skipped (no node was created) and the working element is that node;
\* when selector matched nothing the working element is a newly created, unattached
\* node of type tag; either way the chain still holds the same builder
C7_FindOrCreate ==
    calls.stage = "find.or.create" =>
        /\ builder = 1
        /\ ~threw
        /\ IF FirstInDocument(calls.selector) # NoNode
           THEN /\ manager.element = FirstInDocument(calls.selector)
                /\ \A n \in CreatedByChain : tag[n] = Null
           ELSE /\ manager.element \in CreatedByChain
                /\ tag[manager.element] = calls.tag
                /\ manager.element \notin Connected(kids)
                /\ \A n \in CreatedByChain \ {manager.element} : tag[n] = Null

C7_Witness ==
    /\ calls.stage = "find.or.create"
    /\ manager.bypass
    /\ manager.element = FirstInDocument(calls.selector)
    /\ manager.element # NoNode
    /\ calls.tag # tag[manager.element]

\* C8: a builder call other than then() made while bypass is true changes neither
\* the document tree, the working element, found nor replaced, and returns the same
\* builder
C8_BypassedCallsAreNoOps ==
    [][(manager.bypass /\ remaining' < remaining /\ lastCall' # "then")
           => /\ kids' = kids
              /\ tag' = tag
              /\ manager'.element = manager.element
              /\ manager'.found = manager.found
              /\ manager'.replaced = manager.replaced
              /\ builder' = builder]_vars

\* the merge C9 states: an absent attribute counts as the empty string
StatedMerge(old, givenKey, nu) ==
    IF givenKey.suffix THEN OrEmpty(old) \o nu
    ELSE IF givenKey.prefix THEN nu \o OrEmpty(old)
    ELSE nu

\* C9: a set() call that acts leaves the attribute at the merge of its old value
\* (empty when absent) with the given value, by the key's sigil; $__key with "x"
\* on an element lacking the attribute leaves exactly "x"
C9_SigilMerge ==
    [][(lastCall' = "set" /\ remaining' < remaining /\ ~manager.bypass
            /\ manager.element # NoNode /\ ~(args'.givenKey.prefix /\ args'.givenKey.suffix))
           => attrs'[manager.element][args'.givenKey.name] =
                  Attribute(StatedMerge(attrs[manager.element][args'.givenKey.name],
                                        args'.givenKey, args'.nu))]_vars

\* C10: after hide() directly followed by hide(false) on an element whose style did
\* not contain the hide marker, the style string equals the one before hide()
C10_HideRoundTrip ==
    (calls.stage = "hide.show" /\ ~threw /\ ~Includes(calls.style, HiddenStyle))
        => WorkingStyle = calls.style

HideState == [attrs |-> attrs, threw |-> threw]

\* C11: from a style that holds the hide marker at most once, hide() on a style
\* that contains the marker and hide(false) on a style that does not contain it
\* leave the style string as it is, and whatever hide()/hide(false) calls were made
\* the style contains the marker at most once
C11_HideIdempotent ==
    (manager.element # NoNode /\ ~manager.bypass) =>
        /\ Includes(WorkingStyle, HiddenStyle)
               => HideElement(manager, HideState, TRUE) = HideState
        /\ ~Includes(WorkingStyle, HiddenStyle)
               => HideElement(manager, HideState, FALSE) = HideState
        /\ Cardinality(Occurrences(WorkingStyle, HiddenStyle)) <= 1

\* hide() was called on an element already hidden by an earlier hide()
C11_Witness ==
    /\ calls.stage = "hide"
    /\ lastCall = "hide"
    /\ remaining <= MaxManagerCalls - 2
    /\ Includes(calls.style, HiddenStyle)
    /\ WorkingStyle = calls.style
    /\ Cardinality(Occurrences(WorkingStyle, HiddenStyle)) = 1

ElementChildren(k, p) == SelectSeq(k[p], IsElement)

TreeState == [kids |-> kids, threw |-> threw]

\* where move(direction, n) leaves the working element, as C12 states it: min(n, k)
\* places earlier or later among the element children of its parent, the parent and
\* the order of the other children kept, nothing else in the tree touched, no error
StatedSiblingMove(direction, n) ==
    LET e == manager.element
        p == Parent(kids, e)
        st == MoveElement(manager, TreeState, direction, n)
    IN  /\ ~st.threw
        /\ IF p = NoNode THEN st.kids = kids
           ELSE LET before == ElementChildren(kids, p)
                    after == ElementChildren(st.kids, p)
                    i == IndexOf(before, e)
                    k == IF direction = "up" THEN i - 1 ELSE Len(before) - i
                    m == IF n < k THEN n ELSE k
                IN  /\ Parent(st.kids, e) = p
                    /\ IndexOf(after, e) = IF direction = "up" THEN i - m ELSE i + m
                    /\ Without(after, e) = Without(before, e)
                    /\ \A q \in Nodes \ {p} : st.kids[q] = kids[q]

\* C12: move("up", n) / up(n) moves the working element min(n, k) places earlier
\* among its k previous element siblings and move("down", n) / down(n) min(n, k)
\* places later among its k next ones; the other siblings keep their order, the
\* parent is the same, the loop ends and raises no error when siblings run out
C12_SiblingMoves ==
    (manager.element # NoNode /\ ~manager.bypass /\ ~threw) =>
        \A direction \in {"up", "down"}, n \in Amounts : StatedSiblingMove(direction, n)

\* up() was called on the second of the body's children: one sibling to pass
C12_Witness ==
    /\ lastCall = "up"
    /\ ~manager.bypass /\ ~threw
    /\ manager.element = 2
    /\ Len(kids[Body]) >= 2
    /\ kids[Body][1] = 2 /\ kids[Body][2] = 1

MutatingCalls ==
    {"on", "set", "move", "up", "down", "in", "out", "hide", "remove", "listen", "trigger"}

\* C13: a mutating call made while the working element is null and bypass is false
\* raises no error and leaves the document tree as it was
C13_NullElementIsNoOp ==
    [][(manager.element = NoNode /\ ~manager.bypass /\ ~threw
            /\ remaining' < remaining /\ lastCall' \in MutatingCalls)
           => (~threw' /\ kids' = kids)]_vars

\* C14: right after a find() call, found is true exactly when that call located a
\* node (element is the first match), and false when it located none
C14_FoundTracksLastFind ==
    lastCall = "find" => (manager.found <=> manager.element # NoNode)

\* the parent of n, its parent, and so on up to a node without a parent
RECURSIVE Ancestors(_, _)
Ancestors(k, n) ==
    IF Parent(k, n) = NoNode THEN <<>>
    ELSE <<Parent(k, n)>> \o Ancestors(k, Parent(k, n))

\* levels below the root of its tree: a child of the body is 1 level below the body
Level(k, n) == Len(Ancestors(k, n))

Larger(a, b) == IF a > b THEN a ELSE b

AfterOut(n) == MoveElement(manager, TreeState, "out", n)

\* C15 as stated: out(n) leaves an attached element that was d levels below the
\* body max(d - n, 0) levels below it
C15_OutLevelAsStated ==
    (manager.element # NoNode /\ ~manager.bypass /\ ~threw
         /\ IsConnected(kids, manager.element))
        => \A n \in Amounts :
               Level(AfterOut(n).kids, manager.element)
                   = Larger(Level(kids, manager.element) - n, 0)

\* C15 amended: out(n) ends without an error after m = min(n, d - 1) moves, d the
\* number of the element's ancestors (its level below the body when attached); each
\* move puts it right after its former parent, so it ends right after its former
\* m-th ancestor, max(d - n, 1) levels down, and nothing else in the tree moves;
\* a child of the body or of a parentless node is not moved
C15_OutUnnests ==
    (manager.element # NoNode /\ ~manager.bypass /\ ~threw) =>
        \A n \in Amounts :
            LET e == manager.element
                up == Ancestors(kids, e)
                d == Len(up)
                m == IF n < d - 1 THEN n ELSE Larger(d - 1, 0)
                after == AfterOut(n).kids
            IN  /\ ~AfterOut(n).threw
                /\ IF m = 0 THEN after = kids
                   ELSE /\ Parent(after, e) = up[m + 1]
                        /\ IndexOf(after[up[m + 1]], e)
                               = IndexOf(after[up[m + 1]], up[m]) + 1
                        /\ Level(after, e) = Larger(d - n, 1)
                        /\ \A q \in Nodes : Without(after[q], e) = Without(kids[q], e)

\* out() was called on an element two levels below a child of the body and left it
\* right after that child
C15_Witness ==
    /\ lastCall = "out"
    /\ ~manager.bypass /\ ~threw
    /\ manager.element = 3
    /\ kids[Body] = <<1, 3>>
    /\ kids[1] = <<2>>

\* ============================================== watcher properties, continued
\* the element matching the trigger's target selector now
TargetNow == QuerySelector(kids, tag, watcher.targetSelector)

\* e carries a listener the watcher attached for the chain's i-th event
Listens(e, i) ==
    \E j \in 1..Len(listeners[e]) :
        /\ listeners[e][j].kind = "cb"
        /\ listeners[e][j].event = watcher.chain[i].event

\* what one dispatch of ev on e invokes, in order
Fired(e, ev) ==
    DispatchEvent([ls |-> listeners, inv |-> <<>>, tm |-> timers, overflow |-> FALSE],
                  watcher, e, ev, MaxDepth).inv

\* the watcher was bound by trigger(eventName).on(targetSelector) alone
TriggerDeclared ==
    /\ Constructed /\ Idle
    /\ watcher.triggerEventName # Null /\ watcher.targetSelector # Null
    /\ Len(observers) = 1 /\ ~observers[1].reconfigured

\* C16: when the primary event fires on an element the watcher has bound, eventName
\* is dispatched on the element that matches targetSelector at that time, whether
\* or not it (or another one) was there when the listeners were attached
C16_TargetResolvedAtFireTime ==
    TriggerDeclared =>
        \A e \in Elements, i \in 1..Len(watcher.chain) :
            (Listens(e, i) /\ TargetNow # NoNode) =>
                [call |-> "dispatchEvent:" \o watcher.triggerEventName,
                 element |-> TargetNow] \in SeqSet(Fired(e, watcher.chain[i].event))

\* how many entries of the watcher's selector list match e now (0 when e is not in
\* the document or fails the watcher's condition)
Matches(e) ==
    IF WatchedNow(e)
    THEN Cardinality({i \in 1..Len(watcher.selectors) : tag[e] = watcher.selectors[i]})
    ELSE 0

\* the listeners on e that invoke a callback of the chain for event ev
CallbackListeners(ls, e, ev) ==
    SelectSeq(ls[e], LAMBDA l : l.kind = "cb" /\ l.event = ev)

\* binding-mode subscriptions a delivery notifies
Notified ==
    Cardinality({i \in 1..Len(observers) :
        observers[i].connected /\ observers[i].pending /\ ~observers[i].forExistence})

IsPrefix(a, b) == Len(a) <= Len(b) /\ SubSeq(b, 1, Len(a)) = a

\* one mutation pass: every element keeps the listeners it had and gains, per
\* notified subscription and per match, one listener for every chain entry
PassAttaches ==
    npass' = npass + 1 =>
        \A e \in Elements :
            /\ IsPrefix(listeners[e], listeners'[e])
            /\ \A ev \in Events :
                   Len(CallbackListeners(listeners', e, ev))
                       = Len(CallbackListeners(listeners, e, ev))
                           + Notified * Matches(e)
                               * Cardinality({i \in 1..Len(watcher.chain) :
                                                 watcher.chain[i].event = ev})

\* one dispatch of ev on e runs every callback listener e carries for ev: it invokes
\* the callback or, for an entry with a delay, starts its timer
DispatchRunsEach ==
    (Constructed /\ Idle) =>
        \A e \in Elements, ev \in Events :
            LET st == DispatchEvent([ls |-> listeners, inv |-> <<>>, tm |-> <<>>,
                                     overflow |-> FALSE], watcher, e, ev, MaxDepth)
                own == SelectSeq(st.inv, LAMBDA c : c.element = e /\ c.call \in Callbacks)
                cbs == CallbackListeners(listeners, e, ev)
            IN  (\A j \in 1..Len(listeners[e]) : listeners[e][j].kind = "cb")
                    => Len(own) + Len(st.tm)
                           = Len(SelectSeq(cbs, LAMBDA l : Truthy(l.delay)
                                                             \/ l.callback # Null))

C18_OneQuorumPolicy ==
    (Constructed /\ watcher.selectors # <<>>) =>
        \A i \in 1..Len(passes) :
            passes[i].forExistence => (watcher.requireAll # watcher.requireAny)

\* C19: an element for which the condition of only() is false is never processed:
\* it carries no listener of the watcher, and no existence pass hands it to the
\* callback or counts it toward the quorum (a pass whose quorum rests on such
\* elements alone invokes nothing)
C19_ConditionGatesEveryPass ==
    (Constructed /\ watcher.condition # Null) =>
        /\ \A e \in Elements :
               ~CondHolds(watcher.condition, e) => listeners[e] = <<>>
        /\ \A i \in ExistencePasses :
               \A j \in 1..Len(passes[i].calls) :
                   \A e \in SeqSet(passes[i].calls[j].elements) :
                       CondHolds(watcher.condition, e)

ChainOf(w) == IF w = NoWatcher THEN <<>> ELSE w.chain

\* a call of the chain was made by this step
Called(name) == remaining' < remaining /\ lastCall' = name

\* C20: a new watcher has an empty chain; gets() appends one entry, with its event
\* and no delay or callback, after the ones there; after() and then() keep the
\* number of entries, every entry but the last as it was and the last one's event,
\* and on an empty chain add nothing; no other step changes the chain
ChainStep ==
    LET old == ChainOf(watcher)
        new == ChainOf(watcher')
    IN  IF watcher = NoWatcher THEN new = <<>>
        ELSE IF Called("gets")
        THEN /\ Len(new) = Len(old) + 1
             /\ SubSeq(new, 1, Len(old)) = old
             /\ new[Len(new)].event \in Events
             /\ new[Len(new)].delay = Null /\ new[Len(new)].callback = Null
        ELSE IF Called("after") \/ Called("then")
        THEN /\ Len(new) = Len(old)
             /\ \A i \in 1..(Len(old) - 1) : new[i] = old[i]
             /\ old # <<>> =>
                    /\ new[Len(old)].event = old[Len(old)].event
                    /\ new[Len(old)].callback \in Callbacks
                    /\ Called("after") => new[Len(old)].delay \in Delays
                    /\ Called("then") => new[Len(old)].delay = old[Len(old)].delay
        ELSE new = old

C20_ChainLastEntryOnly == [][ChainStep]_vars

\* then() after two gets(): the first entry still has no callback, the last has one
C20_Witness ==
    /\ Constructed
    /\ lastCall = "then"
    /\ Len(watcher.chain) = 2
    /\ watcher.chain[1].callback = Null
    /\ watcher.chain[2].callback \in Callbacks

====
